---- MODULE Spec2Model ----
(***************************************************************************)
(* Model of the osars client library: the root Client, the chain of query  *)
(* builders (api/colleges.rs, api/groups.rs), the request executor         *)
(* (Client::get_json / post_json / delete_json / handle_response) and the  *)
(* date codec (utils/date_serde.rs).                                       *)
(*                                                                         *)
(* Strings are sequences of tokens; a token is a literal piece of a        *)
(* format string or one character of a formatted argument, so that         *)
(* format!("{}{}", a, b) is the concatenation a \o b.                      *)
(* Option<T> is a sequence of length at most one: <<>> is None and <<x>>   *)
(* is Some(x).                                                             *)
(***************************************************************************)
EXTENDS Integers, Sequences, FiniteSets, TLC

VARIABLES client, now, pc, lastOp, builder, request, response, result,
          call, sends, decodes, transport_calls,
          dPc, dIn, dOut, dSer,
          ePc, eType, eIn, eOut,
          pClient, pPc, pBuilder, pRequest, pOps

vars == <<client, now, pc, lastOp, builder, request, response, result,
          call, sends, decodes, transport_calls, dPc, dIn, dOut, dSer,
          ePc, eType, eIn, eOut, pClient, pPc, pBuilder, pRequest, pOps>>

chainVars == <<client, now, pc, lastOp, builder, request, response, result,
               call, sends, decodes, transport_calls>>

dateVars == <<dPc, dIn, dOut, dSer>>

entityVars == <<ePc, eType, eIn, eOut>>

pairVars == <<pClient, pPc, pBuilder, pRequest, pOps>>

(***************************************************************************)
(* Bounds and input sets                                                   *)
(***************************************************************************)
NumChains == 1

Chains == 1..NumChains

None == <<>>

Some(x) == <<x>>

\* identifiers handed to the narrowing operations and to with_college
Ids == {1, 34}

DefaultIds == {1, 7}

BaseUrls == {<<"https://api.example.com">>}

\* arguments of name(..): "", "a", "a b"
Names == {<<>>, <<"a">>, <<"a", " ", "b">>}

(***************************************************************************)
(* Formatting helpers                                                      *)
(***************************************************************************)
DigitChars == <<"0", "1", "2", "3", "4", "5", "6", "7", "8", "9">>

\* Display for an unsigned integer: decimal, no padding
RECURSIVE u32Display(_)
u32Display(n) ==
    IF n < 10 THEN <<DigitChars[n + 1]>>
    ELSE u32Display(n \div 10) \o <<DigitChars[(n % 10) + 1]>>

\* urlencoding::encode on one character: unreserved characters are kept,
\* every other byte becomes %XX
EncodeChar(c) ==
    CASE c = " " -> "%20"
      [] c = "&" -> "%26"
      [] OTHER -> c

RECURSIVE encode(_)
encode(s) ==
    IF s = <<>> THEN <<>> ELSE <<EncodeChar(Head(s))>> \o encode(Tail(s))

\* the form encoding reqwest's RequestBuilder::query applies to a value
FormEncodeChar(c) ==
    CASE c = " " -> "+"
      [] c = "&" -> "%26"
      [] OTHER -> c

RECURSIVE FormEncode(_)
FormEncode(s) ==
    IF s = <<>> THEN <<>> ELSE <<FormEncodeChar(Head(s))>> \o FormEncode(Tail(s))

(***************************************************************************)
(* Client (client.rs)                                                      *)
(***************************************************************************)
\* Client::new
ClientNew(base_url) == [base_url |-> base_url, default_college_id |-> None]

\* Client::with_college
with_college(self, college_id) ==
    [self EXCEPT !.default_college_id = Some(college_id)]

(***************************************************************************)
(* Date codec (utils/date_serde.rs)                                        *)
(*                                                                         *)
(* A date string is a sequence of one-character tokens.  The codec hands   *)
(* the string, with " 00:00:00" appended, to chrono's strptime-style       *)
(* parser under "%Y-%m-%d %H:%M:%S"; the parser is modelled item by item   *)
(* as chrono 0.4 runs it: a numeric item skips leading whitespace and      *)
(* takes between one digit and its maximal width, %Y also takes a sign,    *)
(* a literal must match exactly, a space in the format skips any run of    *)
(* whitespace, and input left over after the last item is an error.        *)
(***************************************************************************)
Digits == {"0", "1", "2", "3", "4", "5", "6", "7", "8", "9"}

DigitVal(c) == CHOOSE v \in 0..9 : DigitChars[v + 1] = c

IsSpace(c) == c = " "

RECURSIVE TrimStart(_)
TrimStart(s) ==
    IF s # <<>> /\ IsSpace(Head(s)) THEN TrimStart(Tail(s)) ELSE s

\* number of leading digits of s, at most max
RECURSIVE LeadingDigits(_, _)
LeadingDigits(s, max) ==
    IF max = 0 \/ s = <<>> \/ Head(s) \notin Digits THEN 0
    ELSE 1 + LeadingDigits(Tail(s), max - 1)

RECURSIVE DecimalValue(_)
DecimalValue(s) ==
    IF s = <<>> THEN 0
    ELSE 10 * DecimalValue(SubSeq(s, 1, Len(s) - 1)) + DigitVal(s[Len(s)])

\* chrono scan::number(s, min, max)
ScanNumber(s, min, max) ==
    LET k == LeadingDigits(s, max)
    IN  IF k < min THEN [ok |-> FALSE, v |-> 0, rest |-> s]
        ELSE [ok |-> TRUE, v |-> DecimalValue(SubSeq(s, 1, k)),
              rest |-> SubSeq(s, k + 1, Len(s))]

\* a numeric item: (width, signed) as in chrono's parse loop
ParseNumeric(s0, width, signed) ==
    LET s == TrimStart(s0)
    IN  IF signed /\ s # <<>> /\ Head(s) = "-"
        THEN LET r == ScanNumber(Tail(s), 1, Len(s))
             IN  [r EXCEPT !.v = 0 - r.v]
        ELSE IF signed /\ s # <<>> /\ Head(s) = "+"
        THEN ScanNumber(Tail(s), 1, Len(s))
        ELSE ScanNumber(s, 1, width)

NumItem(f, w, sg) == [t |-> "num", f |-> f, w |-> w, signed |-> sg, c |-> ""]

LitItem(c) == [t |-> "lit", f |-> "", w |-> 0, signed |-> FALSE, c |-> c]

SpaceItem == [t |-> "space", f |-> "", w |-> 0, signed |-> FALSE, c |-> " "]

\* const FORMAT: "%Y-%m-%d"
FORMAT == <<NumItem("year", 4, TRUE), LitItem("-"), NumItem("month", 2, FALSE),
            LitItem("-"), NumItem("day", 2, FALSE)>>

\* the format deserialize parses with: "%Y-%m-%d %H:%M:%S"
ParseFormat ==
    FORMAT \o <<SpaceItem, NumItem("hour", 2, FALSE), LitItem(":"),
                NumItem("minute", 2, FALSE), LitItem(":"),
                NumItem("second", 2, FALSE)>>

MidnightSuffix == <<" ", "0", "0", ":", "0", "0", ":", "0", "0">>

ZeroDateTime ==
    [year |-> 0, month |-> 0, day |-> 0, hour |-> 0, minute |-> 0, second |-> 0]

ParseErr(e) == [ok |-> FALSE, dt |-> ZeroDateTime, err |-> e]

ParseOk(dt) == [ok |-> TRUE, dt |-> dt, err |-> ""]

\* chrono format::parse: run the items over the input
RECURSIVE ParseItems(_, _, _)
ParseItems(items, s, parsed) ==
    IF items = <<>>
    THEN IF s = <<>> THEN ParseOk(parsed) ELSE ParseErr("TooLong")
    ELSE LET it == Head(items)
         IN  CASE it.t = "lit" ->
                    IF s = <<>> THEN ParseErr("TooShort")
                    ELSE IF Head(s) # it.c THEN ParseErr("Invalid")
                    ELSE ParseItems(Tail(items), Tail(s), parsed)
               [] it.t = "space" ->
                    ParseItems(Tail(items), TrimStart(s), parsed)
               [] OTHER ->
                    LET r == ParseNumeric(s, it.w, it.signed)
                    IN  IF ~r.ok
                        THEN ParseErr(IF TrimStart(s) = <<>> THEN "TooShort"
                                      ELSE "Invalid")
                        ELSE ParseItems(Tail(items), r.rest,
                                        [parsed EXCEPT ![it.f] = r.v])

IsLeapYear(y) == (y % 4 = 0 /\ y % 100 # 0) \/ y % 400 = 0

DaysInMonth(y, m) ==
    IF m \in {4, 6, 9, 11} THEN 30
    ELSE IF m = 2 THEN (IF IsLeapYear(y) THEN 29 ELSE 28)
    ELSE 31

\* Parsed::to_naive_datetime: the fields must name a real date and time
ValidFields(p) ==
    /\ p.month \in 1..12
    /\ p.day >= 1 /\ p.day <= DaysInMonth(p.year, p.month)
    /\ p.hour <= 23 /\ p.minute <= 59 /\ p.second <= 59

\* Utc.datetime_from_str(s, "%Y-%m-%d %H:%M:%S")
datetime_from_str(s) ==
    LET r == ParseItems(ParseFormat, s, ZeroDateTime)
    IN  IF ~r.ok THEN r
        ELSE IF ~ValidFields(r.dt) THEN ParseErr("OutOfRange")
        ELSE r

\* date_serde::deserialize
deserialize(s) == datetime_from_str(s \o MidnightSuffix)

\* zero padding of a non-negative number to a width
ZeroPad(n, width) ==
    LET d == u32Display(n)
    IN  IF Len(d) >= width THEN d
        ELSE [i \in 1..width |->
                 IF i <= width - Len(d) THEN "0" ELSE d[i - (width - Len(d))]]

\* one item of DateTime::format
FormatItem(it, dt) ==
    CASE it.t = "lit" -> <<it.c>>
      [] it.t = "space" -> <<" ">>
      [] it.f = "year" ->
            IF dt.year >= 0 /\ dt.year <= 9999 THEN ZeroPad(dt.year, 4)
            ELSE IF dt.year < 0 THEN <<"-">> \o ZeroPad(0 - dt.year, 4)
            ELSE <<"+">> \o ZeroPad(dt.year, 4)
      [] OTHER -> ZeroPad(dt[it.f], 2)

RECURSIVE FormatItems(_, _)
FormatItems(items, dt) ==
    IF items = <<>> THEN <<>>
    ELSE FormatItem(Head(items), dt) \o FormatItems(Tail(items), dt)

\* serialize with the day and month written without padding
serialize_unpadded(dt) ==
    ZeroPad(dt.year, 4) \o <<"-">> \o u32Display(dt.month) \o <<"-">>
        \o u32Display(dt.day)

\* date_serde::serialize
serialize(dt) == FormatItems(FORMAT, dt)

(***************************************************************************)
(* JSON decoding (serde_json::from_str::<T>), over the bodies of the model *)
(***************************************************************************)
GroupBody == "{\"studentGroupId\":34,\"name\":\"g\",\"campusId\":1}"

ErrorBody == "{\"error\":\"not found\"}"

Bodies == {"", "null", "not json", "[]", ErrorBody, GroupBody}

NoJson == [j |-> "none", keys |-> {}, len |-> 0]

\* the JSON text of a body: a syntax error, or the value it denotes
ParseJson(body) ==
    CASE body = "" -> [ok |-> FALSE, err |-> "Eof", json |-> NoJson]
      [] body = "null" ->
            [ok |-> TRUE, err |-> "", json |-> [j |-> "null", keys |-> {}, len |-> 0]]
      [] body = "[]" ->
            [ok |-> TRUE, err |-> "", json |-> [j |-> "array", keys |-> {}, len |-> 0]]
      [] body = ErrorBody ->
            [ok |-> TRUE, err |-> "",
             json |-> [j |-> "object", keys |-> {"error"}, len |-> 1]]
      [] body = GroupBody ->
            [ok |-> TRUE, err |-> "",
             json |-> [j |-> "object",
                       keys |-> {"studentGroupId", "name", "campusId"}, len |-> 3]]
      [] OTHER -> [ok |-> FALSE, err |-> "Syntax", json |-> NoJson]

\* the result types of the terminal operations and of the executor's callers
VecTypes == {"Vec<College>", "Vec<Campus>", "Vec<Group>", "Vec<Schedule>"}

StructTypes == {"College", "Campus", "Group"}

\* the fields a struct cannot be decoded without (models/*.rs; Campus.groups
\* has a serde default)
RequiredKeys(T) ==
    CASE T = "College" -> {"college_id", "name", "calls", "campuses"}
      [] T = "Campus" -> {"campusId", "name", "collegeId"}
      [] T = "Group" -> {"studentGroupId", "name", "campusId"}
      [] OTHER -> {}

\* does a JSON value have the shape of T
MatchesType(json, T) ==
    CASE T = "()" -> json.j = "null"
      [] T \in VecTypes -> json.j = "array"
      [] OTHER -> json.j = "object" /\ RequiredKeys(T) \subseteq json.keys

NoValue == [type |-> "", json |-> NoJson]

\* serde_json::from_str::<T>(text)
from_str(text, T) ==
    LET p == ParseJson(text)
    IN  IF ~p.ok THEN [ok |-> FALSE, err |-> p.err, value |-> NoValue]
        ELSE IF ~MatchesType(p.json, T)
        THEN [ok |-> FALSE, err |-> "Data", value |-> NoValue]
        ELSE [ok |-> TRUE, err |-> "", value |-> [type |-> T, json |-> p.json]]

(***************************************************************************)
(* Errors and results                                                      *)
(***************************************************************************)
NoResult ==
    [tag |-> "none", kind |-> "", status |-> 0, class |-> "", body |-> None,
     diag |-> "", value |-> NoValue]

Ok(v) == [NoResult EXCEPT !.tag = "Ok", !.value = v]

\* Error::Validation(msg)
ErrValidation(msg) ==
    [NoResult EXCEPT !.tag = "Err", !.kind = "Validation", !.diag = msg]

\* Error::Reqwest(e): e is the transport's error
ErrReqwest(e) == [NoResult EXCEPT !.tag = "Err", !.kind = "Reqwest", !.diag = e]

\* Error::Serialization(e): e is serde_json's error, the only field
ErrSerialization(e) ==
    [NoResult EXCEPT !.tag = "Err", !.kind = "Serialization", !.diag = e]

\* the classification of a status
StatusClass(status) ==
    IF status = 404 THEN "NotFound"
    ELSE IF status >= 400 /\ status <= 499 THEN "ClientError"
    ELSE IF status >= 500 /\ status <= 599 THEN "ServerError"
    ELSE "Other"

\* Error::from_response(status, body)
from_response(status, body) ==
    [NoResult EXCEPT !.tag = "Err", !.kind = "Http", !.status = status,
                     !.class = StatusClass(status), !.body = Some(body)]

\* the conversion `?` applies to a reqwest::Error (From<reqwest::Error>)
FromReqwestError(e) == ErrReqwest(e)

\* StatusCode::is_success
is_success(status) == status >= 200 /\ status <= 299

Statuses == {200, 204, 404, 500}

(***************************************************************************)
(* Query builders (api/colleges.rs, api/groups.rs) and ScheduleQuery       *)
(***************************************************************************)
NoSel == [k |-> "none", v |-> <<>>]

NoBuilder == [kind |-> "none", id |-> 0, name |-> None, sel |-> NoSel]

\* CollegesQuery::new
CollegesQueryNew == [NoBuilder EXCEPT !.kind = "Colleges"]

\* CollegeQuery::new
CollegeQueryNew(college_id) == [NoBuilder EXCEPT !.kind = "College", !.id = college_id]

\* CampusesQuery::new
CampusesQueryNew(college_id) ==
    [NoBuilder EXCEPT !.kind = "Campuses", !.id = college_id]

\* CampusQuery::new
CampusQueryNew(campus_id) == [NoBuilder EXCEPT !.kind = "Campus", !.id = campus_id]

\* GroupsQuery::new
GroupsQueryNew(campus_id) == [NoBuilder EXCEPT !.kind = "Groups", !.id = campus_id]

\* GroupQuery::new
GroupQueryNew(group_id) == [NoBuilder EXCEPT !.kind = "Group", !.id = group_id]

\* ScheduleQuery::new
ScheduleQueryNew(group_id) == [NoBuilder EXCEPT !.kind = "Schedule", !.id = group_id]

\* CollegesQuery::name, CampusesQuery::name
SetName(self, name) == [self EXCEPT !.name = Some(name)]

\* CollegesQuery::college
CollegesQuery_college(self, college_id) == CollegeQueryNew(college_id)

\* CollegeQuery::campuses
CollegeQuery_campuses(self) == CampusesQueryNew(self.id)

\* CollegeQuery::campus
CollegeQuery_campus(self, campus_id) == CampusQueryNew(campus_id)

\* CampusesQuery::campus
CampusesQuery_campus(self, campus_id) == CampusQueryNew(campus_id)

\* CampusQuery::groups
CampusQuery_groups(self) == GroupsQueryNew(self.id)

\* CampusQuery::group
CampusQuery_group(self, group_id) == GroupQueryNew(group_id)

\* GroupsQuery::group
GroupsQuery_group(self, group_id) == GroupQueryNew(group_id)

\* GroupQuery::schedules
GroupQuery_schedules(self) == ScheduleQueryNew(self.id)

\* the day after a calendar date
NextDay(dt) ==
    IF dt.day < DaysInMonth(dt.year, dt.month) THEN [dt EXCEPT !.day = dt.day + 1]
    ELSE IF dt.month < 12 THEN [dt EXCEPT !.day = 1, !.month = dt.month + 1]
    ELSE [dt EXCEPT !.day = 1, !.month = 1, !.year = dt.year + 1]

\* ScheduleQuery::today: the clock's calendar date, through the date codec
ScheduleQuery_today(self, clock) ==
    [self EXCEPT !.sel = [k |-> "date", v |-> serialize(clock)]]

\* ScheduleQuery::tomorrow
ScheduleQuery_tomorrow(self, clock) ==
    [self EXCEPT !.sel = [k |-> "date", v |-> serialize(NextDay(clock))]]

\* ScheduleQuery::date
ScheduleQuery_date(self, date) == [self EXCEPT !.sel = [k |-> "date", v |-> date]]

\* ScheduleQuery::week
ScheduleQuery_week(self, week) == [self EXCEPT !.sel = [k |-> "week", v |-> <<week>>]]

(***************************************************************************)
(* Entities with date fields (models/schedule.rs, models/call.rs)          *)
(*                                                                         *)
(* A JSON value is a record: j is its kind, s the characters of a string,  *)
(* num a number, items the `order` fields of an array of Lesson objects.   *)
(* A JSON object is a record over the keys of Schedule and Call, a key the *)
(* object does not have being JAbsent; serde ignores keys a struct does    *)
(* not declare.                                                            *)
(***************************************************************************)
JAbsent == [j |-> "absent", s |-> <<>>, num |-> 0, items |-> <<>>]

JNull == [JAbsent EXCEPT !.j = "null"]

JStr(s) == [JAbsent EXCEPT !.j = "string", !.s = s]

JNum(n) == [JAbsent EXCEPT !.j = "number", !.num = n]

JLessons(orders) == [JAbsent EXCEPT !.j = "array", !.items = orders]

EmptyObject ==
    [group_id |-> JAbsent, date |-> JAbsent, lessons |-> JAbsent,
     call_id |-> JAbsent, weekday |-> JAbsent, begins |-> JAbsent,
     ends |-> JAbsent, order |-> JAbsent]

\* a decoded field: a u32, a String, a DateTime<Utc> or a Vec<Lesson>
NoField == [t |-> "none", n |-> 0, s |-> <<>>, dt |-> ZeroDateTime, items |-> <<>>]

U32Value(n) == [NoField EXCEPT !.t = "u32", !.n = n]

StringValue(s) == [NoField EXCEPT !.t = "String", !.s = s]

DateTimeValue(dt) == [NoField EXCEPT !.t = "DateTime<Utc>", !.dt = dt]

LessonsValue(orders) == [NoField EXCEPT !.t = "Vec<Lesson>", !.items = orders]

NoEntity ==
    [type |-> "", group_id |-> NoField, date |-> NoField, lessons |-> NoField,
     call_id |-> NoField, weekday |-> NoField, begins |-> NoField,
     ends |-> NoField, order |-> NoField]

DecodeErr(e) == [ok |-> FALSE, err |-> e, value |-> NoEntity]

DecodeOk(v) == [ok |-> TRUE, err |-> "", value |-> v]

\* a u32 field takes a JSON number that is not negative (every number of the
\* model is below 2^32)
IsU32(v) == v.j = "number" /\ v.num >= 0

\* a u8 field takes a JSON number in 0..255
IsU8(v) == v.j = "number" /\ v.num >= 0 /\ v.num <= 255

(***************************************************************************)
(* chrono's FromStr for DateTime<FixedOffset>, which its Deserialize for   *)
(* DateTime<Utc> applies to a JSON string: a date, "T" or a space, a time  *)
(* and a zone offset ("Z" or +hh:mm), then the conversion to UTC.          *)
(***************************************************************************)
ZeroParsed ==
    [year |-> 0, month |-> 0, day |-> 0, hour |-> 0, minute |-> 0, second |-> 0,
     offset |-> 0]

OffsetItem == [t |-> "offset", f |-> "offset", w |-> 0, signed |-> FALSE, c |-> ""]

DATE_ITEMS ==
    <<NumItem("year", 4, TRUE), SpaceItem, LitItem("-"), NumItem("month", 2, FALSE),
      SpaceItem, LitItem("-"), NumItem("day", 2, FALSE)>>

TIME_ITEMS ==
    <<NumItem("hour", 2, FALSE), SpaceItem, LitItem(":"),
      NumItem("minute", 2, FALSE), SpaceItem, LitItem(":"),
      NumItem("second", 2, FALSE), SpaceItem, OffsetItem, SpaceItem>>

PrefixErr(e) == [ok |-> FALSE, p |-> ZeroParsed, err |-> e, rest |-> <<>>]

\* scan::timezone_offset_zulu: "Z", or a sign, two digits, ":" and two digits;
\* the offset in minutes east of UTC
TimezoneOffsetZ(s0) ==
    LET s == TrimStart(s0)
    IN  IF s = <<>> THEN [ok |-> FALSE, v |-> 0, rest |-> s, err |-> "TooShort"]
        ELSE IF Head(s) = "Z" THEN [ok |-> TRUE, v |-> 0, rest |-> Tail(s), err |-> ""]
        ELSE IF Head(s) \notin {"+", "-"}
        THEN [ok |-> FALSE, v |-> 0, rest |-> s, err |-> "Invalid"]
        ELSE LET t == Tail(s)
             IN  IF Len(t) < 5
                 THEN [ok |-> FALSE, v |-> 0, rest |-> s, err |-> "TooShort"]
                 ELSE IF \/ t[1] \notin Digits \/ t[2] \notin Digits \/ t[3] # ":"
                         \/ t[4] \notin Digits \/ t[5] \notin Digits
                 THEN [ok |-> FALSE, v |-> 0, rest |-> s, err |-> "Invalid"]
                 ELSE IF DecimalValue(SubSeq(t, 4, 5)) > 59
                 THEN [ok |-> FALSE, v |-> 0, rest |-> s, err |-> "OutOfRange"]
                 ELSE LET m == 60 * DecimalValue(SubSeq(t, 1, 2))
                                   + DecimalValue(SubSeq(t, 4, 5))
                      IN  [ok |-> TRUE, v |-> IF Head(s) = "-" THEN 0 - m ELSE m,
                           rest |-> SubSeq(t, 6, Len(t)), err |-> ""]

\* chrono parse_internal: run the items over a prefix of the input and hand
\* back what is left
RECURSIVE parse_internal(_, _, _)
parse_internal(items, s, parsed) ==
    IF items = <<>> THEN [ok |-> TRUE, p |-> parsed, err |-> "", rest |-> s]
    ELSE LET it == Head(items)
         IN  CASE it.t = "lit" ->
                    IF s = <<>> THEN PrefixErr("TooShort")
                    ELSE IF Head(s) # it.c THEN PrefixErr("Invalid")
                    ELSE parse_internal(Tail(items), Tail(s), parsed)
               [] it.t = "space" ->
                    parse_internal(Tail(items), TrimStart(s), parsed)
               [] it.t = "offset" ->
                    LET r == TimezoneOffsetZ(s)
                    IN  IF ~r.ok THEN PrefixErr(r.err)
                        ELSE parse_internal(Tail(items), r.rest,
                                            [parsed EXCEPT !.offset = r.v])
               [] OTHER ->
                    LET r == ParseNumeric(s, it.w, it.signed)
                    IN  IF ~r.ok
                        THEN PrefixErr(IF TrimStart(s) = <<>> THEN "TooShort"
                                       ELSE "Invalid")
                        ELSE parse_internal(Tail(items), r.rest,
                                            [parsed EXCEPT ![it.f] = r.v])

\* the day before a calendar date
PrevDay(dt) ==
    IF dt.day > 1 THEN [dt EXCEPT !.day = dt.day - 1]
    ELSE IF dt.month > 1
    THEN [dt EXCEPT !.month = dt.month - 1,
                    !.day = DaysInMonth(dt.year, dt.month - 1)]
    ELSE [dt EXCEPT !.year = dt.year - 1, !.month = 12, !.day = 31]

\* DateTime::with_timezone(&Utc): the same instant on the UTC clock
with_timezone_utc(p) ==
    LET local == [year |-> p.year, month |-> p.month, day |-> p.day,
                  hour |-> p.hour, minute |-> p.minute, second |-> p.second]
        m == 60 * p.hour + p.minute - p.offset
        day == IF m < 0 THEN PrevDay(local)
               ELSE IF m >= 1440 THEN NextDay(local)
               ELSE local
        mm == (m + 1440) % 1440
    IN  [day EXCEPT !.hour = mm \div 60, !.minute = mm % 60]

\* str::parse::<DateTime<FixedOffset>>, then with_timezone(&Utc)
DateTime_from_str(s) ==
    LET d == parse_internal(DATE_ITEMS, s, ZeroParsed)
    IN  IF ~d.ok THEN ParseErr(d.err)
        ELSE IF d.rest = <<>> THEN ParseErr("NotEnough")
        ELSE IF Head(d.rest) \notin {"T", " "} THEN ParseErr("Invalid")
        ELSE LET t == parse_internal(TIME_ITEMS, Tail(d.rest), d.p)
             IN  IF ~t.ok THEN ParseErr(t.err)
                 ELSE IF t.rest # <<>> THEN ParseErr("TooLong")
                 ELSE IF ~ValidFields(t.p) \/ t.p.offset <= -1440
                         \/ t.p.offset >= 1440
                 THEN ParseErr("OutOfRange")
                 ELSE ParseOk(with_timezone_utc(t.p))

\* Deserialize for DateTime<Utc> (chrono's serde feature): a JSON string,
\* parsed by DateTime_from_str
DateTimeUtc_deserialize(v) ==
    IF v.j # "string" THEN ParseErr("invalid type") ELSE DateTime_from_str(v.s)

\* #[derive(Deserialize)] struct Schedule { group_id: u32, date: String,
\*                                          lessons: Vec<Lesson> }
Schedule_deserialize(obj) ==
    IF \/ ~IsU32(obj.group_id)
       \/ obj.date.j # "string"
       \/ obj.lessons.j # "array"
    THEN DecodeErr("Data")
    ELSE DecodeOk([NoEntity EXCEPT !.type = "Schedule",
                                   !.group_id = U32Value(obj.group_id.num),
                                   !.date = StringValue(obj.date.s),
                                   !.lessons = LessonsValue(obj.lessons.items)])

\* #[derive(Deserialize)] struct Call { call_id: u32, weekday: u8,
\*     begins: DateTime<Utc>, ends: DateTime<Utc>, order: u32 }
Call_deserialize(obj) ==
    LET b == DateTimeUtc_deserialize(obj.begins)
        e == DateTimeUtc_deserialize(obj.ends)
    IN  IF \/ ~IsU32(obj.call_id)
           \/ ~IsU8(obj.weekday)
           \/ ~b.ok
           \/ ~e.ok
           \/ ~IsU32(obj.order)
        THEN DecodeErr("Data")
        ELSE DecodeOk([NoEntity EXCEPT !.type = "Call",
                                       !.call_id = U32Value(obj.call_id.num),
                                       !.weekday = U32Value(obj.weekday.num),
                                       !.begins = DateTimeValue(b.dt),
                                       !.ends = DateTimeValue(e.dt),
                                       !.order = U32Value(obj.order.num)])

\* serde_json::from_str::<T>(text) for a body that is the JSON object obj
from_str_object(obj, T) ==
    IF T = "Schedule" THEN Schedule_deserialize(obj) ELSE Call_deserialize(obj)

(***************************************************************************)
(* The paths the terminal operations request                               *)
(***************************************************************************)
\* CollegesQuery::send: "/colleges", the name through RequestBuilder::query
CollegesUrl(self) ==
    IF self.name # None
    THEN <<"/colleges">> \o <<"?name=">> \o FormEncode(self.name[1])
    ELSE <<"/colleges">>

\* CollegeQuery::get
CollegePath(self) == <<"/colleges/">> \o u32Display(self.id)

\* CampusesQuery::send that writes the name parameter whether set or not
CampusesUrl_always(self) ==
    <<"/colleges/">> \o u32Display(self.id) \o <<"/campuses">> \o <<"?name=">>
        \o (IF self.name # None THEN encode(self.name[1]) ELSE <<>>)

\* CampusesQuery::send
CampusesUrl(self) ==
    LET url == <<"/colleges/">> \o u32Display(self.id) \o <<"/campuses">>
    IN  IF self.name # None
        THEN url \o <<"?name=">> \o encode(self.name[1])
        ELSE url

\* CampusQuery::get
CampusPath(self) == <<"/campuses/">> \o u32Display(self.id)

\* GroupsQuery::send
GroupsPath(self) == <<"/campuses/">> \o u32Display(self.id) \o <<"/groups">>

\* GroupQuery::get with a misspelt path
GroupPath_typo(self) == <<"/group/">> \o u32Display(self.id)

\* GroupQuery::get
GroupPath(self) == <<"/groups/">> \o u32Display(self.id)

\* ScheduleQuery::send
ScheduleUrl(self) ==
    LET url == <<"/groups/">> \o u32Display(self.id) \o <<"/schedules">>
    IN  CASE self.sel.k = "date" -> url \o <<"?date=">> \o self.sel.v
          [] self.sel.k = "week" -> url \o <<"?week=">> \o self.sel.v
          [] OTHER -> url

(***************************************************************************)
(* Request executor (client.rs)                                            *)
(***************************************************************************)
NoRequest ==
    [method |-> "none", url |-> <<>>, auth |-> FALSE, json |-> FALSE]

NoCall == [op |-> "none", T |-> ""]

NoResponse == [status |-> 0, body |-> None]

\* get_json, lines 177-186: the URL and the request handed to the transport
get_json_request(self, path) ==
    [method |-> "GET", url |-> self.base_url \o path, auth |-> FALSE, json |-> FALSE]

\* post_json, lines 233-247
post_json_request(self, path, body, auth) ==
    [method |-> "POST", url |-> self.base_url \o path, auth |-> auth # None,
     json |-> body # None]

\* delete_json, lines 256-266
delete_json_request(self, path, auth) ==
    [method |-> "DELETE", url |-> self.base_url \o path, auth |-> auth # None,
     json |-> FALSE]

\* CollegesQuery::send, lines 22-30
colleges_send_request(self, b) ==
    [method |-> "GET", url |-> self.base_url \o CollegesUrl(b), auth |-> FALSE,
     json |-> FALSE]

\* get_json that tries the success type first, whatever the status
get_json_finish_decode_first(status, raw_body, T) ==
    LET d == from_str(raw_body, T)
    IN  IF d.ok THEN [decoded |-> TRUE, res |-> Ok(d.value)]
        ELSE IF is_success(status)
        THEN [decoded |-> TRUE, res |-> ErrSerialization(d.err)]
        ELSE [decoded |-> TRUE, res |-> from_response(status, raw_body)]

\* get_json, lines 210-221: what becomes of a status and a body read in full
get_json_finish(status, raw_body, T) ==
    IF is_success(status)
    THEN LET d == from_str(raw_body, T)
         IN  [decoded |-> TRUE,
              res |-> IF d.ok THEN Ok(d.value) ELSE ErrSerialization(d.err)]
    ELSE [decoded |-> FALSE, res |-> from_response(status, raw_body)]

\* handle_response with the emptiness test inverted
handle_response_inverted(status, raw_body, T) ==
    IF is_success(status)
    THEN LET d == IF raw_body # "" THEN from_str("null", T)
                  ELSE from_str(raw_body, T)
         IN  [decoded |-> TRUE,
              res |-> IF d.ok THEN Ok(d.value) ELSE ErrSerialization(d.err)]
    ELSE [decoded |-> FALSE, res |-> from_response(status, raw_body)]

\* handle_response without the special case of the empty body
handle_response_no_empty(status, raw_body, T) ==
    IF is_success(status)
    THEN LET d == from_str(raw_body, T)
         IN  [decoded |-> TRUE,
              res |-> IF d.ok THEN Ok(d.value) ELSE ErrSerialization(d.err)]
    ELSE [decoded |-> FALSE, res |-> from_response(status, raw_body)]

\* handle_response, lines 290-310
handle_response(status, raw_body, T) ==
    IF is_success(status)
    THEN LET d == IF raw_body = "" THEN from_str("null", T)
                  ELSE from_str(raw_body, T)
         IN  [decoded |-> TRUE,
              res |-> IF d.ok THEN Ok(d.value) ELSE ErrSerialization(d.err)]
    ELSE [decoded |-> FALSE, res |-> from_response(status, raw_body)]

\* CollegesQuery::send, lines 33-38: response.json() on success
colleges_send_finish(status, body, T) ==
    IF is_success(status)
    THEN LET d == from_str(body, T)
         IN  [decoded |-> TRUE,
              res |-> IF d.ok THEN Ok(d.value) ELSE FromReqwestError("decode")]
    ELSE [decoded |-> FALSE, res |-> from_response(status, body)]

(***************************************************************************)
(* State                                                                   *)
(*   client          the root Client                                       *)
(*   now             the clock today()/tomorrow() read, at the time of     *)
(*                   the run: the last second of a year                    *)
(*   pc[ch]          position of chain ch: "idle" (nothing called yet),    *)
(*                   "building" (holds a builder), "sent" (send().await),  *)
(*                   "head" (status known, body being read), "done"        *)
(*   lastOp[ch]      the operation the chain called last, and its argument *)
(*   builder[ch]     the builder the chain holds                           *)
(*   request[ch]     the request in flight                                 *)
(*   call[ch]        the executor operation awaiting a response, and T     *)
(*   response[ch]    status and body received so far                       *)
(*   result[ch]      what the chain's last fallible call returned          *)
(*   sends[ch]       requests chain ch handed to the transport             *)
(*   decodes[ch]     attempts of chain ch to decode a body into T          *)
(*   transport_calls requests handed to the transport by all chains        *)
(***************************************************************************)
ClockStart ==
    [year |-> 2025, month |-> 12, day |-> 31, hour |-> 23, minute |-> 59,
     second |-> 59]

\* argument of date(..)
ExplicitDates == {<<"2", "0", "2", "5", "-", "1", "1", "-", "1", "5">>}

\* enum Week (models/mod.rs)
Weeks == {"Previus", "Current", "Next"}

\* direct uses of the executor: path, result type, credentials, JSON body
ExecPaths == {<<"/test">>}

ExecTypes == {"()", "Group"}

Auths == {None, Some("token")}

JsonBodies == {None, Some("{}")}

\* the record of a call: the operation and its argument as text
Called(op, arg) == [op |-> op, arg |-> arg]

NoOp == Called("none", <<>>)

Clients ==
    {ClientNew(b) : b \in BaseUrls}
        \cup {with_college(ClientNew(b), c) : b \in BaseUrls, c \in DefaultIds}

ChainInit ==
    /\ client \in Clients
    /\ now = ClockStart
    /\ pc = [ch \in Chains |-> "idle"]
    /\ lastOp = [ch \in Chains |-> NoOp]
    /\ builder = [ch \in Chains |-> NoBuilder]
    /\ request = [ch \in Chains |-> NoRequest]
    /\ call = [ch \in Chains |-> NoCall]
    /\ response = [ch \in Chains |-> NoResponse]
    /\ result = [ch \in Chains |-> NoResult]
    /\ sends = [ch \in Chains |-> 0]
    /\ decodes = [ch \in Chains |-> 0]
    /\ transport_calls = 0

DateIdle ==
    /\ dPc = "idle"
    /\ dIn = <<>>
    /\ dOut = ParseErr("")
    /\ dSer = <<>>

EntityIdle ==
    /\ ePc = "idle"
    /\ eType = ""
    /\ eIn = EmptyObject
    /\ eOut = DecodeErr("")

Runs == {1, 2}

PairIdle ==
    /\ pClient = [i \in Runs |-> ClientNew(<<>>)]
    /\ pPc = [i \in Runs |-> "off"]
    /\ pBuilder = [i \in Runs |-> NoBuilder]
    /\ pRequest = [i \in Runs |-> NoRequest]
    /\ pOps = <<>>

Init == ChainInit /\ DateIdle /\ EntityIdle /\ PairIdle

(***************************************************************************)
(* Steps shared by the operations                                          *)
(***************************************************************************)
\* an infallible constructor of the client: the chain now holds builder b
Start(ch, op, b) ==
    /\ pc[ch] = "idle"
    /\ pc' = [pc EXCEPT ![ch] = "building"]
    /\ lastOp' = [lastOp EXCEPT ![ch] = op]
    /\ builder' = [builder EXCEPT ![ch] = b]
    /\ UNCHANGED <<client, now, request, call, response, result, sends, decodes,
                   transport_calls>>
    /\ UNCHANGED <<dateVars, entityVars, pairVars>>

\* a default-college operation: Err(Validation) when the default is absent
StartScoped(ch, op, msg, b) ==
    /\ pc[ch] = "idle"
    /\ lastOp' = [lastOp EXCEPT ![ch] = op]
    /\ IF client.default_college_id = None
       THEN /\ pc' = [pc EXCEPT ![ch] = "done"]
            /\ result' = [result EXCEPT ![ch] = ErrValidation(msg)]
            /\ UNCHANGED builder
       ELSE /\ pc' = [pc EXCEPT ![ch] = "building"]
            /\ builder' = [builder EXCEPT ![ch] = b]
            /\ UNCHANGED result
    /\ UNCHANGED <<client, now, request, call, response, sends, decodes,
                   transport_calls>>
    /\ UNCHANGED <<dateVars, entityVars, pairVars>>

\* a narrowing operation that also records the builder's identifier as the
\* client's default college
Narrow_rescope(ch, kind, op, b) ==
    /\ pc[ch] = "building"
    /\ builder[ch].kind = kind
    /\ builder' = [builder EXCEPT ![ch] = b]
    /\ lastOp' = [lastOp EXCEPT ![ch] = op]
    /\ client' = with_college(client, b.id)
    /\ UNCHANGED <<now, pc, request, call, response, result, sends,
                   decodes, transport_calls>>
    /\ UNCHANGED <<dateVars, entityVars, pairVars>>

\* a narrowing operation: consumes the builder of the given kind, yields b
Narrow(ch, kind, op, b) ==
    /\ pc[ch] = "building"
    /\ builder[ch].kind = kind
    /\ builder' = [builder EXCEPT ![ch] = b]
    /\ lastOp' = [lastOp EXCEPT ![ch] = op]
    /\ UNCHANGED <<client, now, pc, request, call, response, result, sends,
                   decodes, transport_calls>>
    /\ UNCHANGED <<dateVars, entityVars, pairVars>>

\* http_client.<method>(url)...send(): one request handed to the transport
Transmit(ch, op, T, req) ==
    /\ pc' = [pc EXCEPT ![ch] = "sent"]
    /\ lastOp' = [lastOp EXCEPT ![ch] = op]
    /\ builder' = [builder EXCEPT ![ch] = NoBuilder]
    /\ request' = [request EXCEPT ![ch] = req]
    /\ call' = [call EXCEPT ![ch] =
                    [op |-> IF op.op = "CollegesQuery::send" THEN op.op
                            ELSE IF req.method = "POST" THEN "post_json"
                            ELSE IF req.method = "DELETE" THEN "delete_json"
                            ELSE "get_json",
                     T |-> T]]
    /\ sends' = [sends EXCEPT ![ch] = @ + 1]
    /\ transport_calls' = transport_calls + 1
    /\ UNCHANGED <<client, now, response, result, decodes>>
    /\ UNCHANGED <<dateVars, entityVars, pairVars>>

\* a terminal operation that delegates to get_json(path)
Terminal(ch, kind, op, T, path) ==
    /\ pc[ch] = "building"
    /\ builder[ch].kind = kind
    /\ Transmit(ch, op, T, get_json_request(client, path))

(***************************************************************************)
(* Operations of the client (client.rs)                                    *)
(***************************************************************************)
\* Client::colleges
ClientColleges(ch) == Start(ch, Called("Client::colleges", <<>>), CollegesQueryNew)

\* Client::college
ClientCollege(ch) ==
    StartScoped(ch, Called("Client::college", <<>>),
                "No default college set. Use client.with_college() first",
                IF client.default_college_id = None THEN NoBuilder
                ELSE CollegeQueryNew(client.default_college_id[1]))

\* Client::campuses
ClientCampuses(ch) ==
    StartScoped(ch, Called("Client::campuses", <<>>), "No default college set",
                IF client.default_college_id = None THEN NoBuilder
                ELSE CampusesQueryNew(client.default_college_id[1]))

\* Client::campus without the look at the default college it does not use
ClientCampus_unchecked(ch, campus_id) ==
    Start(ch, Called("Client::campus", u32Display(campus_id)),
          CampusQueryNew(campus_id))

\* Client::campus
ClientCampus(ch, campus_id) ==
    StartScoped(ch, Called("Client::campus", u32Display(campus_id)),
                "No default college set. Use client.with_college() first",
                CampusQueryNew(campus_id))

\* Client::groups
ClientGroups(ch, campus_id) ==
    Start(ch, Called("Client::groups", u32Display(campus_id)),
          GroupsQueryNew(campus_id))

\* Client::schedule
ClientSchedule(ch, group_id) ==
    Start(ch, Called("Client::schedule", u32Display(group_id)),
          ScheduleQueryNew(group_id))

\* Client::today
ClientToday(ch, group_id) ==
    Start(ch, Called("Client::today", u32Display(group_id)),
          ScheduleQuery_today(ScheduleQueryNew(group_id), now))

\* Client::tomorrow
ClientTomorrow(ch, group_id) ==
    Start(ch, Called("Client::tomorrow", u32Display(group_id)),
          ScheduleQuery_tomorrow(ScheduleQueryNew(group_id), now))

\* Client::get_json called directly, up to send().await
ClientGetJson(ch, path, T) ==
    /\ pc[ch] = "idle"
    /\ Transmit(ch, Called("Client::get_json", path), T, get_json_request(client, path))

\* Client::post_json, up to send().await
ClientPostJson(ch, path, T, body, auth) ==
    /\ pc[ch] = "idle"
    /\ Transmit(ch, Called("Client::post_json", path), T,
                post_json_request(client, path, body, auth))

\* Client::delete_json, up to send().await
ClientDeleteJson(ch, path, T, auth) ==
    /\ pc[ch] = "idle"
    /\ Transmit(ch, Called("Client::delete_json", path), T,
                delete_json_request(client, path, auth))

(***************************************************************************)
(* Narrowing operations of the builders                                    *)
(***************************************************************************)
CollegesName(ch, name) ==
    Narrow(ch, "Colleges", Called("CollegesQuery::name", name),
           SetName(builder[ch], name))

CollegesCollege(ch, college_id) ==
    Narrow(ch, "Colleges", Called("CollegesQuery::college", u32Display(college_id)),
           CollegesQuery_college(builder[ch], college_id))

CollegeCampuses(ch) ==
    Narrow(ch, "College", Called("CollegeQuery::campuses", <<>>),
           CollegeQuery_campuses(builder[ch]))

CollegeCampus(ch, campus_id) ==
    Narrow(ch, "College", Called("CollegeQuery::campus", u32Display(campus_id)),
           CollegeQuery_campus(builder[ch], campus_id))

CampusesName(ch, name) ==
    Narrow(ch, "Campuses", Called("CampusesQuery::name", name),
           SetName(builder[ch], name))

CampusesCampus(ch, campus_id) ==
    Narrow(ch, "Campuses", Called("CampusesQuery::campus", u32Display(campus_id)),
           CampusesQuery_campus(builder[ch], campus_id))

CampusGroups(ch) ==
    Narrow(ch, "Campus", Called("CampusQuery::groups", <<>>),
           CampusQuery_groups(builder[ch]))

CampusGroup(ch, group_id) ==
    Narrow(ch, "Campus", Called("CampusQuery::group", u32Display(group_id)),
           CampusQuery_group(builder[ch], group_id))

GroupsGroup(ch, group_id) ==
    Narrow(ch, "Groups", Called("GroupsQuery::group", u32Display(group_id)),
           GroupsQuery_group(builder[ch], group_id))

GroupSchedules(ch) ==
    Narrow(ch, "Group", Called("GroupQuery::schedules", <<>>),
           GroupQuery_schedules(builder[ch]))

\* GroupQuery::today: self.schedules().today()
GroupToday(ch) ==
    Narrow(ch, "Group", Called("GroupQuery::today", <<>>),
           ScheduleQuery_today(GroupQuery_schedules(builder[ch]), now))

\* GroupQuery::tomorrow
GroupTomorrow(ch) ==
    Narrow(ch, "Group", Called("GroupQuery::tomorrow", <<>>),
           ScheduleQuery_tomorrow(GroupQuery_schedules(builder[ch]), now))

\* GroupQuery::date
GroupDate(ch, date) ==
    Narrow(ch, "Group", Called("GroupQuery::date", date),
           ScheduleQuery_date(GroupQuery_schedules(builder[ch]), date))

\* GroupQuery::week
GroupWeek(ch, week) ==
    Narrow(ch, "Group", Called("GroupQuery::week", <<week>>),
           ScheduleQuery_week(GroupQuery_schedules(builder[ch]), week))

ScheduleToday(ch) ==
    Narrow(ch, "Schedule", Called("ScheduleQuery::today", <<>>),
           ScheduleQuery_today(builder[ch], now))

ScheduleTomorrow(ch) ==
    Narrow(ch, "Schedule", Called("ScheduleQuery::tomorrow", <<>>),
           ScheduleQuery_tomorrow(builder[ch], now))

ScheduleDate(ch, date) ==
    Narrow(ch, "Schedule", Called("ScheduleQuery::date", date),
           ScheduleQuery_date(builder[ch], date))

ScheduleWeek(ch, week) ==
    Narrow(ch, "Schedule", Called("ScheduleQuery::week", <<week>>),
           ScheduleQuery_week(builder[ch], week))

(***************************************************************************)
(* Terminal operations, up to send().await                                 *)
(***************************************************************************)
\* CollegesQuery::send builds and sends its own request
CollegesSend(ch) ==
    /\ pc[ch] = "building"
    /\ builder[ch].kind = "Colleges"
    /\ Transmit(ch, Called("CollegesQuery::send", <<>>), "Vec<College>",
                colleges_send_request(client, builder[ch]))

CollegeGet(ch) ==
    Terminal(ch, "College", Called("CollegeQuery::get", <<>>), "College",
             CollegePath(builder[ch]))

CampusesSend(ch) ==
    Terminal(ch, "Campuses", Called("CampusesQuery::send", <<>>), "Vec<Campus>",
             CampusesUrl(builder[ch]))

CampusGet(ch) ==
    Terminal(ch, "Campus", Called("CampusQuery::get", <<>>), "Campus",
             CampusPath(builder[ch]))

GroupsSend(ch) ==
    Terminal(ch, "Groups", Called("GroupsQuery::send", <<>>), "Vec<Group>",
             GroupsPath(builder[ch]))

GroupGet(ch) ==
    Terminal(ch, "Group", Called("GroupQuery::get", <<>>), "Group",
             GroupPath(builder[ch]))

ScheduleSend(ch) ==
    Terminal(ch, "Schedule", Called("ScheduleQuery::send", <<>>), "Vec<Schedule>",
             ScheduleUrl(builder[ch]))

(***************************************************************************)
(* The transport answers                                                   *)
(***************************************************************************)
\* a failed send() that is tried again
SendFails_retry(ch) ==
    /\ pc[ch] = "sent"
    /\ sends[ch] < 3
    /\ sends' = [sends EXCEPT ![ch] = @ + 1]
    /\ transport_calls' = transport_calls + 1
    /\ UNCHANGED <<client, now, pc, lastOp, builder, request, call, response,
                   result, decodes>>
    /\ UNCHANGED <<dateVars, entityVars, pairVars>>

\* send().await fails: Error::Reqwest
SendFails(ch) ==
    /\ pc[ch] = "sent"
    /\ pc' = [pc EXCEPT ![ch] = "done"]
    /\ result' = [result EXCEPT ![ch] =
                     IF call[ch].op = "CollegesQuery::send"
                     THEN FromReqwestError("send") ELSE ErrReqwest("send")]
    /\ request' = [request EXCEPT ![ch] = NoRequest]
    /\ UNCHANGED <<client, now, lastOp, builder, call, response, sends, decodes,
                   transport_calls>>
    /\ UNCHANGED <<dateVars, entityVars, pairVars>>

\* send().await yields a response: its status is read
RecvStatus(ch, status) ==
    /\ pc[ch] = "sent"
    /\ pc' = [pc EXCEPT ![ch] = "head"]
    /\ response' = [response EXCEPT ![ch] = [status |-> status, body |-> None]]
    /\ request' = [request EXCEPT ![ch] = NoRequest]
    /\ UNCHANGED <<client, now, lastOp, builder, call, result, sends, decodes,
                   transport_calls>>
    /\ UNCHANGED <<dateVars, entityVars, pairVars>>

\* reading the body (text() or json()) fails: Error::Reqwest
ReadBodyFails(ch) ==
    /\ pc[ch] = "head"
    /\ pc' = [pc EXCEPT ![ch] = "done"]
    /\ result' = [result EXCEPT ![ch] =
                     IF call[ch].op = "CollegesQuery::send"
                     THEN FromReqwestError("body") ELSE ErrReqwest("body")]
    /\ UNCHANGED <<client, now, lastOp, builder, request, call, response, sends,
                   decodes, transport_calls>>
    /\ UNCHANGED <<dateVars, entityVars, pairVars>>

\* what the awaiting operation makes of the status and the body
Finish(op, status, body, T) ==
    CASE op = "get_json" -> get_json_finish(status, body, T)
      [] op = "CollegesQuery::send" -> colleges_send_finish(status, body, T)
      [] OTHER -> handle_response(status, body, T)

\* the body is read in full and the operation returns
ReadBody(ch, body) ==
    /\ pc[ch] = "head"
    /\ LET fin == Finish(call[ch].op, response[ch].status, body, call[ch].T)
       IN  /\ result' = [result EXCEPT ![ch] = fin.res]
           /\ decodes' = [decodes EXCEPT ![ch] = IF fin.decoded THEN @ + 1 ELSE @]
    /\ pc' = [pc EXCEPT ![ch] = "done"]
    /\ response' = [response EXCEPT ![ch].body = Some(body)]
    /\ UNCHANGED <<client, now, lastOp, builder, request, call, sends,
                   transport_calls>>
    /\ UNCHANGED <<dateVars, entityVars, pairVars>>

Next ==
    \/ \E ch \in Chains :
        \/ ClientColleges(ch)
        \/ ClientCollege(ch)
        \/ ClientCampuses(ch)
        \/ \E id \in Ids : ClientCampus(ch, id)
        \/ \E id \in Ids : ClientGroups(ch, id)
        \/ \E id \in Ids : ClientSchedule(ch, id)
        \/ \E id \in Ids : ClientToday(ch, id)
        \/ \E id \in Ids : ClientTomorrow(ch, id)
        \/ \E p \in ExecPaths, T \in ExecTypes : ClientGetJson(ch, p, T)
        \/ \E p \in ExecPaths, T \in ExecTypes, b \in JsonBodies, a \in Auths :
              ClientPostJson(ch, p, T, b, a)
        \/ \E p \in ExecPaths, T \in ExecTypes, a \in Auths :
              ClientDeleteJson(ch, p, T, a)
        \/ \E n \in Names : CollegesName(ch, n)
        \/ \E id \in Ids : CollegesCollege(ch, id)
        \/ CollegeCampuses(ch)
        \/ \E id \in Ids : CollegeCampus(ch, id)
        \/ \E n \in Names : CampusesName(ch, n)
        \/ \E id \in Ids : CampusesCampus(ch, id)
        \/ CampusGroups(ch)
        \/ \E id \in Ids : CampusGroup(ch, id)
        \/ \E id \in Ids : GroupsGroup(ch, id)
        \/ GroupSchedules(ch)
        \/ GroupToday(ch)
        \/ GroupTomorrow(ch)
        \/ \E d \in ExplicitDates : GroupDate(ch, d)
        \/ \E w \in Weeks : GroupWeek(ch, w)
        \/ ScheduleToday(ch)
        \/ ScheduleTomorrow(ch)
        \/ \E d \in ExplicitDates : ScheduleDate(ch, d)
        \/ \E w \in Weeks : ScheduleWeek(ch, w)
        \/ CollegesSend(ch)
        \/ CollegeGet(ch)
        \/ CampusesSend(ch)
        \/ CampusGet(ch)
        \/ GroupsSend(ch)
        \/ GroupGet(ch)
        \/ ScheduleSend(ch)
        \/ SendFails(ch)
        \/ \E st \in Statuses : RecvStatus(ch, st)
        \/ ReadBodyFails(ch)
        \/ \E body \in Bodies : ReadBody(ch, body)

Spec == Init /\ [][Next]_vars

(***************************************************************************)
(* Several chains sharing one client                                       *)
(*                                                                         *)
(* The chains of SharedChains run on one client, interleaved step by step:  *)
(* the builders of api/colleges.rs and api/groups.rs from the client        *)
(* operation that starts a chain to the answer of its terminal operation,  *)
(* each operation with one argument value.                                 *)
(***************************************************************************)
SharedChains == 1..(NumChains + 1)

SharedIds == {34}

SharedNames == {<<"a">>}

SharedStatuses == {200, 500}

SharedBodies == {"[]"}

InitShared ==
    /\ client \in Clients
    /\ now = ClockStart
    /\ pc = [ch \in SharedChains |-> "idle"]
    /\ lastOp = [ch \in SharedChains |-> NoOp]
    /\ builder = [ch \in SharedChains |-> NoBuilder]
    /\ request = [ch \in SharedChains |-> NoRequest]
    /\ call = [ch \in SharedChains |-> NoCall]
    /\ response = [ch \in SharedChains |-> NoResponse]
    /\ result = [ch \in SharedChains |-> NoResult]
    /\ sends = [ch \in SharedChains |-> 0]
    /\ decodes = [ch \in SharedChains |-> 0]
    /\ transport_calls = 0
    /\ DateIdle
    /\ EntityIdle
    /\ PairIdle

NextShared ==
    \E ch \in SharedChains :
        \/ ClientColleges(ch)
        \/ ClientCollege(ch)
        \/ ClientCampuses(ch)
        \/ \E id \in SharedIds : ClientCampus(ch, id)
        \/ \E id \in SharedIds : ClientGroups(ch, id)
        \/ \E n \in SharedNames : CollegesName(ch, n)
        \/ \E id \in SharedIds : CollegesCollege(ch, id)
        \/ CollegeCampuses(ch)
        \/ \E id \in SharedIds : CollegeCampus(ch, id)
        \/ \E n \in SharedNames : CampusesName(ch, n)
        \/ \E id \in SharedIds : CampusesCampus(ch, id)
        \/ CampusGroups(ch)
        \/ \E id \in SharedIds : CampusGroup(ch, id)
        \/ \E id \in SharedIds : GroupsGroup(ch, id)
        \/ CollegesSend(ch)
        \/ CollegeGet(ch)
        \/ CampusesSend(ch)
        \/ CampusGet(ch)
        \/ GroupsSend(ch)
        \/ GroupGet(ch)
        \/ SendFails(ch)
        \/ \E st \in SharedStatuses : RecvStatus(ch, st)
        \/ ReadBodyFails(ch)
        \/ \E body \in SharedBodies : ReadBody(ch, body)

SpecShared == InitShared /\ [][NextShared]_vars

(***************************************************************************)
(* One chain run on two clients                                            *)
(*                                                                         *)
(* Two clients receive the same calls with the same arguments, starting    *)
(* with client.campus(id); run i is the chain on client pClient[i].        *)
(*   pPc[i]       "idle", "building", "sent", or "failed" after an Err     *)
(*   pBuilder[i]  the builder run i holds                                  *)
(*   pRequest[i]  the request run i handed to the transport                *)
(*   pOps         the calls made so far, with their arguments              *)
(***************************************************************************)
\* Client::campus with the campus taken from the default college
Client_campus_scoped(self, campus_id) ==
    IF self.default_college_id = None
    THEN [ok |-> FALSE, b |-> NoBuilder,
          err |-> ErrValidation(
                      "No default college set. Use client.with_college() first")]
    ELSE [ok |-> TRUE, b |-> CampusQueryNew(self.default_college_id[1]),
          err |-> NoResult]

\* Client::campus
Client_campus(self, campus_id) ==
    IF self.default_college_id = None
    THEN [ok |-> FALSE, b |-> NoBuilder,
          err |-> ErrValidation(
                      "No default college set. Use client.with_college() first")]
    ELSE [ok |-> TRUE, b |-> CampusQueryNew(campus_id), err |-> NoResult]

InitPair ==
    /\ ChainInit
    /\ DateIdle
    /\ EntityIdle
    /\ pClient \in [Runs -> Clients]
    /\ pClient[1].base_url = pClient[2].base_url
    /\ pPc = [i \in Runs |-> "idle"]
    /\ pBuilder = [i \in Runs |-> NoBuilder]
    /\ pRequest = [i \in Runs |-> NoRequest]
    /\ pOps = <<>>

\* the runs that hold a builder of the given kind
Holding(kind) == {i \in Runs : pPc[i] = "building" /\ pBuilder[i].kind = kind}

\* client.campus(campus_id) on each client
PairCampus(campus_id) ==
    /\ \A i \in Runs : pPc[i] = "idle"
    /\ pPc' = [i \in Runs |->
                  IF Client_campus(pClient[i], campus_id).ok THEN "building"
                  ELSE "failed"]
    /\ pBuilder' = [i \in Runs |-> Client_campus(pClient[i], campus_id).b]
    /\ pOps' = <<Called("Client::campus", u32Display(campus_id))>>
    /\ UNCHANGED <<pClient, pRequest>>
    /\ UNCHANGED <<chainVars, dateVars, entityVars>>

\* CampusQuery::groups
PairGroups ==
    /\ Holding("Campus") # {}
    /\ pBuilder' = [i \in Runs |->
                       IF i \in Holding("Campus") THEN CampusQuery_groups(pBuilder[i])
                       ELSE pBuilder[i]]
    /\ pOps' = Append(pOps, Called("CampusQuery::groups", <<>>))
    /\ UNCHANGED <<pClient, pPc, pRequest>>
    /\ UNCHANGED <<chainVars, dateVars, entityVars>>

\* CampusQuery::group
PairCampusGroup(group_id) ==
    /\ Holding("Campus") # {}
    /\ pBuilder' = [i \in Runs |->
                       IF i \in Holding("Campus")
                       THEN CampusQuery_group(pBuilder[i], group_id)
                       ELSE pBuilder[i]]
    /\ pOps' = Append(pOps, Called("CampusQuery::group", u32Display(group_id)))
    /\ UNCHANGED <<pClient, pPc, pRequest>>
    /\ UNCHANGED <<chainVars, dateVars, entityVars>>

\* GroupsQuery::group
PairGroupsGroup(group_id) ==
    /\ Holding("Groups") # {}
    /\ pBuilder' = [i \in Runs |->
                       IF i \in Holding("Groups")
                       THEN GroupsQuery_group(pBuilder[i], group_id)
                       ELSE pBuilder[i]]
    /\ pOps' = Append(pOps, Called("GroupsQuery::group", u32Display(group_id)))
    /\ UNCHANGED <<pClient, pPc, pRequest>>
    /\ UNCHANGED <<chainVars, dateVars, entityVars>>

\* the path a terminal operation hands to get_json
TerminalPath(b) ==
    CASE b.kind = "Campus" -> CampusPath(b)
      [] b.kind = "Groups" -> GroupsPath(b)
      [] OTHER -> GroupPath(b)

\* a terminal operation on the runs holding a builder of the kind: the request
\* of get_json is handed to the transport
PairTerminal(kind, op) ==
    /\ Holding(kind) # {}
    /\ pRequest' = [i \in Runs |->
                       IF i \in Holding(kind)
                       THEN get_json_request(pClient[i], TerminalPath(pBuilder[i]))
                       ELSE pRequest[i]]
    /\ pPc' = [i \in Runs |-> IF i \in Holding(kind) THEN "sent" ELSE pPc[i]]
    /\ pBuilder' = [i \in Runs |->
                       IF i \in Holding(kind) THEN NoBuilder ELSE pBuilder[i]]
    /\ pOps' = Append(pOps, Called(op, <<>>))
    /\ UNCHANGED pClient
    /\ UNCHANGED <<chainVars, dateVars, entityVars>>

\* CampusQuery::get
PairCampusGet == PairTerminal("Campus", "CampusQuery::get")

\* GroupsQuery::send
PairGroupsSend == PairTerminal("Groups", "GroupsQuery::send")

\* GroupQuery::get
PairGroupGet == PairTerminal("Group", "GroupQuery::get")

NextPair ==
    \/ \E id \in Ids : PairCampus(id)
    \/ PairGroups
    \/ \E g \in Ids : PairCampusGroup(g)
    \/ \E g \in Ids : PairGroupsGroup(g)
    \/ PairCampusGet
    \/ PairGroupsSend
    \/ PairGroupGet

SpecPair == InitPair /\ [][NextPair]_vars

(***************************************************************************)
(* The date codec applied to date strings                                  *)
(***************************************************************************)
YearTexts ==
    {<<"2", "0", "2", "5">>, <<"2", "0", "2", "4">>, <<"0", "0", "0", "1">>,
     <<"2", "5">>, <<"+", "2", "0", "2", "5">>}

MonthTexts ==
    {<<"0", "1">>, <<"1">>, <<"0", "2">>, <<"1", "1">>, <<"1", "2">>, <<"1", "3">>}

DayTexts ==
    {<<"0", "5">>, <<"5">>, <<"1", "5">>, <<"2", "9">>, <<"3", "0">>, <<"3", "1">>,
     <<"4", "0">>}

LeadTexts == {<<>>, <<" ">>}

TrailTexts == {<<>>, <<" ">>, <<"x">>}

\* strings of the shape  lead year-month-day trail, and a few of other shapes:
\* "", "15-11-2025", "2025/11/15", "2025-11", "2025-11-15-", "20251115"
DateInputs ==
    {l \o y \o <<"-">> \o m \o <<"-">> \o d \o t :
        l \in LeadTexts, y \in YearTexts, m \in MonthTexts, d \in DayTexts,
        t \in TrailTexts}
    \cup {<<>>,
          <<"1", "5", "-", "1", "1", "-", "2", "0", "2", "5">>,
          <<"2", "0", "2", "5", "/", "1", "1", "/", "1", "5">>,
          <<"2", "0", "2", "5", "-", "1", "1">>,
          <<"2", "0", "2", "5", "-", "1", "1", "-", "1", "5", "-">>,
          <<"2", "0", "2", "5", "1", "1", "1", "5">>}

InitDate ==
    /\ ChainInit
    /\ EntityIdle
    /\ PairIdle
    /\ dPc = "input"
    /\ dIn \in DateInputs
    /\ dOut = ParseErr("")
    /\ dSer = <<>>

\* date_serde::deserialize applied to the string
Deserialize ==
    /\ dPc = "input"
    /\ dOut' = deserialize(dIn)
    /\ dPc' = IF deserialize(dIn).ok THEN "decoded" ELSE "failed"
    /\ UNCHANGED <<dIn, dSer>>
    /\ UNCHANGED <<chainVars, entityVars, pairVars>>

\* date_serde::serialize applied to the decoded timestamp
Serialize ==
    /\ dPc = "decoded"
    /\ dSer' = serialize(dOut.dt)
    /\ dPc' = "encoded"
    /\ UNCHANGED <<dIn, dOut>>
    /\ UNCHANGED <<chainVars, entityVars, pairVars>>

NextDate == Deserialize \/ Serialize

SpecDate == InitDate /\ [][NextDate]_vars

(***************************************************************************)
(* Schedule and Call values decoded from the body of a 2xx response        *)
(***************************************************************************)
Date_2025_11_15 == <<"2", "0", "2", "5", "-", "1", "1", "-", "1", "5">>

Time_08_00_00 == <<"0", "8", ":", "0", "0", ":", "0", "0">>

Time_01_30_00 == <<"0", "1", ":", "3", "0", ":", "0", "0">>

Plus_03_00 == <<"+", "0", "3", ":", "0", "0">>

\* what a server may put into a date field: "2025-11-15", "2024-02-29",
\* "2025-02-29", "2025-1-5", "15/11/2025", "15-11-2025", "", "tomorrow",
\* "2025-11-15T08:00:00Z", "2025-11-15 08:00:00Z", "2025-11-15T08:00:00",
\* "2025-11-15T01:30:00+03:00", "2025-11-15T25:00:00Z"
WireDateTexts ==
    {Date_2025_11_15,
     <<"2", "0", "2", "4", "-", "0", "2", "-", "2", "9">>,
     <<"2", "0", "2", "5", "-", "0", "2", "-", "2", "9">>,
     <<"2", "0", "2", "5", "-", "1", "-", "5">>,
     <<"1", "5", "/", "1", "1", "/", "2", "0", "2", "5">>,
     <<"1", "5", "-", "1", "1", "-", "2", "0", "2", "5">>,
     <<>>,
     <<"t", "o", "m", "o", "r", "r", "o", "w">>,
     Date_2025_11_15 \o <<"T">> \o Time_08_00_00 \o <<"Z">>,
     Date_2025_11_15 \o <<" ">> \o Time_08_00_00 \o <<"Z">>,
     Date_2025_11_15 \o <<"T">> \o Time_08_00_00,
     Date_2025_11_15 \o <<"T">> \o Time_01_30_00 \o Plus_03_00,
     Date_2025_11_15 \o <<"T", "2", "5", ":", "0", "0", ":", "0", "0", "Z">>}

\* the JSON values of a date field: a string, a number, null, or no field
WireDates == {JStr(s) : s \in WireDateTexts} \cup {JNum(20251115), JNull, JAbsent}

\* {"group_id":34,"date":..,"lessons":[{"order":1,..}]}
ScheduleObjects ==
    {[EmptyObject EXCEPT !.group_id = JNum(34), !.date = d,
                         !.lessons = JLessons(<<1>>)] : d \in WireDates}

\* {"call_id":1,"weekday":1,"begins":..,"ends":..,"order":1}
CallObjects ==
    {[EmptyObject EXCEPT !.call_id = JNum(1), !.weekday = JNum(1), !.begins = b,
                         !.ends = e, !.order = JNum(1)] :
        b \in WireDates, e \in WireDates}

InitEntity ==
    /\ ChainInit
    /\ DateIdle
    /\ PairIdle
    /\ ePc = "input"
    /\ \/ eType = "Schedule" /\ eIn \in ScheduleObjects
       \/ eType = "Call" /\ eIn \in CallObjects
    /\ eOut = DecodeErr("")

\* get_json::<T> on a 2xx response whose body is the object eIn:
\* serde_json::from_str(&raw_body)
DecodeEntity ==
    /\ ePc = "input"
    /\ eOut' = from_str_object(eIn, eType)
    /\ ePc' = IF from_str_object(eIn, eType).ok THEN "decoded" ELSE "failed"
    /\ UNCHANGED <<eType, eIn>>
    /\ UNCHANGED <<chainVars, dateVars, pairVars>>

SpecEntity == InitEntity /\ [][DecodeEntity]_vars

(***************************************************************************)
(* Properties of the date codec                                            *)
(***************************************************************************)
\* s is YYYY-MM-DD: four, two and two digits between "-", naming a real date
IsCalendarDate(s) ==
    /\ Len(s) = 10
    /\ \A i \in {1, 2, 3, 4, 6, 7, 9, 10} : s[i] \in Digits
    /\ s[5] = "-" /\ s[8] = "-"
    /\ LET y == DecimalValue(SubSeq(s, 1, 4))
           m == DecimalValue(SubSeq(s, 6, 7))
           d == DecimalValue(SubSeq(s, 9, 10))
       IN  m \in 1..12 /\ d \in 1..DaysInMonth(y, m)

MidnightOf(s) ==
    [year |-> DecimalValue(SubSeq(s, 1, 4)), month |-> DecimalValue(SubSeq(s, 6, 7)),
     day |-> DecimalValue(SubSeq(s, 9, 10)), hour |-> 0, minute |-> 0, second |-> 0]

\* C9: every valid YYYY-MM-DD string s decodes, to the timestamp at 00:00:00
\* UTC of that calendar date, and encoding the decoded timestamp gives s back.
C9_RoundTrip ==
    IsCalendarDate(dIn) =>
        /\ dPc # "failed"
        /\ dPc \in {"decoded", "encoded"} => dOut.ok /\ dOut.dt = MidnightOf(dIn)
        /\ dPc = "encoded" => dSer = dIn

C9_Witness ==
    /\ dPc = "encoded"
    /\ dIn = <<"2", "0", "2", "4", "-", "0", "2", "-", "2", "9">>
    /\ dSer = dIn

\* C10: a string that is not exactly YYYY-MM-DD never decodes to a timestamp.
C10_StrictDecode == ~IsCalendarDate(dIn) => dPc \notin {"decoded", "encoded"}

(***************************************************************************)
(* Properties of the decoding of Schedule and Call                         *)
(***************************************************************************)
\* the date fields of an entity
DateFields(T) == IF T = "Schedule" THEN {"date"} ELSE {"begins", "ends"}

\* the field is a JSON string in the YYYY-MM-DD representation
IsWireDate(v) == v.j = "string" /\ IsCalendarDate(v.s)

\* C11: decoding a Schedule or a Call goes through the YYYY-MM-DD date codec:
\* when every date field is a YYYY-MM-DD string the entity decodes and each
\* date field is the timestamp at midnight UTC of that date, and when a date
\* field is in any other representation the decode of the response fails.
C11_DateFieldsThroughCodec ==
    ePc \in {"decoded", "failed"} =>
        IF \A f \in DateFields(eType) : IsWireDate(eIn[f])
        THEN /\ eOut.ok
             /\ \A f \in DateFields(eType) :
                    eOut.value[f] = DateTimeValue(MidnightOf(eIn[f].s))
        ELSE ~eOut.ok

(***************************************************************************)
(* Properties of the client, the builders and the executor                 *)
(***************************************************************************)
ScopedOps == {"Client::college", "Client::campuses", "Client::campus"}

ScopedKind(op) ==
    CASE op = "Client::college" -> "College"
      [] op = "Client::campuses" -> "Campuses"
      [] OTHER -> "Campus"

ExecutorOps == {"get_json", "post_json", "delete_json"}

\* the chain has received a whole response
Answered(ch) == pc[ch] = "done" /\ response[ch].body # None

\* the body is well-formed JSON of the shape of T
WellFormedFor(body, T) == ParseJson(body).ok /\ MatchesType(ParseJson(body).json, T)

\* C1: right after college(), campuses() or campus(id), a client without a
\* default college has returned a Validation error and sent nothing; a client
\* with a default college has returned the builder of that scope, no error.
C1_DefaultScope ==
    \A ch \in Chains :
        lastOp[ch].op \in ScopedOps =>
            /\ sends[ch] = 0
            /\ IF client.default_college_id = None
               THEN /\ pc[ch] = "done"
                    /\ result[ch].tag = "Err"
                    /\ result[ch].kind = "Validation"
                    /\ builder[ch] = NoBuilder
               ELSE /\ pc[ch] = "building"
                    /\ result[ch].tag = "none"
                    /\ builder[ch].kind = ScopedKind(lastOp[ch].op)
                    /\ builder[ch].id =
                          IF lastOp[ch].op = "Client::campus"
                          THEN DecimalValue(lastOp[ch].arg)
                          ELSE client.default_college_id[1]

C1_Witness ==
    \E ch \in Chains :
        /\ lastOp[ch].op = "Client::campus"
        /\ client.default_college_id = None
        /\ result[ch].kind = "Validation"
        /\ transport_calls = 0

\* C2: an executor operation that received a status >= 400 and any body made
\* no attempt to decode it and returned the Http error of that status with
\* that body.
C2_ErrorStatus ==
    \A ch \in Chains :
        (Answered(ch) /\ call[ch].op \in ExecutorOps /\ response[ch].status >= 400) =>
            /\ decodes[ch] = 0
            /\ result[ch].tag = "Err"
            /\ result[ch].kind = "Http"
            /\ result[ch].status = response[ch].status
            /\ result[ch].body = response[ch].body

C2_Witness ==
    \E ch \in Chains :
        /\ Answered(ch)
        /\ lastOp[ch].op = "CampusQuery::get"
        /\ response[ch] = [status |-> 404, body |-> Some(ErrorBody)]
        /\ result[ch].kind = "Http"
        /\ result[ch].body = Some(ErrorBody)

RECURSIVE SumTo(_, _)
SumTo(f, n) == IF n = 0 THEN 0 ELSE f[n] + SumTo(f, n - 1)

\* C3: a chain has handed no request to the transport while it narrows (or
\* when a default-college operation refused it), and exactly one from its
\* terminal operation on, whatever the outcome.
C3_OneRoundTrip ==
    /\ \A ch \in Chains :
          sends[ch] = IF \/ pc[ch] \in {"idle", "building"}
                         \/ pc[ch] = "done" /\ result[ch].kind = "Validation"
                      THEN 0 ELSE 1
    /\ transport_calls = SumTo(sends, NumChains)

C3_Witness ==
    \E ch \in Chains :
        /\ pc[ch] = "done"
        /\ lastOp[ch].op = "GroupQuery::get"
        /\ result[ch].kind = "Reqwest"
        /\ sends[ch] = 1

\* C4: an executor operation that received a status in [200,299) and a
\* well-formed JSON body of the shape of T returned the decoded value.
C4_SuccessDecodes ==
    \A ch \in Chains :
        (/\ Answered(ch)
         /\ call[ch].op \in ExecutorOps
         /\ response[ch].status >= 200 /\ response[ch].status < 299
         /\ WellFormedFor(response[ch].body[1], call[ch].T)) =>
            /\ result[ch].tag = "Ok"
            /\ result[ch].value =
                  [type |-> call[ch].T, json |-> ParseJson(response[ch].body[1]).json]

C4_Witness ==
    \E ch \in Chains :
        /\ Answered(ch)
        /\ call[ch] = [op |-> "post_json", T |-> "Group"]
        /\ response[ch] = [status |-> 200, body |-> Some(GroupBody)]
        /\ result[ch].tag = "Ok"

EmptyBodySuccess(ch) ==
    /\ Answered(ch)
    /\ call[ch].op \in {"post_json", "delete_json"}
    /\ is_success(response[ch].status)
    /\ response[ch].body = Some("")

JsonNull == [j |-> "null", keys |-> {}, len |-> 0]

\* C5 as claimed: a 2xx response with an empty body on DELETE or POST gives
\* the unit/null result, never a decode failure.
C5_EmptyBodyIsUnit ==
    \A ch \in Chains : EmptyBodySuccess(ch) => result[ch].tag = "Ok"

\* C5 as amended: the empty body is decoded as JSON null, so the result is the
\* unit/null value when T accepts null and a decode failure (of null, not of
\* the empty text) when T does not.
C5_EmptyBodyAsNull ==
    \A ch \in Chains :
        EmptyBodySuccess(ch) =>
            IF call[ch].T = "()"
            THEN result[ch] = Ok([type |-> "()", json |-> JsonNull])
            ELSE /\ result[ch].tag = "Err"
                 /\ result[ch].kind = "Serialization"
                 /\ result[ch].diag = "Data"

C5_Witness ==
    \E ch \in Chains :
        /\ EmptyBodySuccess(ch)
        /\ call[ch] = [op |-> "delete_json", T |-> "()"]
        /\ response[ch].status = 204
        /\ result[ch].tag = "Ok"

\* C6: a 2xx response with a non-empty body that is not well-formed JSON of
\* the shape of T ends every terminal and executor operation with a decode
\* error that holds the raw body and the parse diagnostic.
C6_DecodeError ==
    \A ch \in Chains :
        (/\ Answered(ch)
         /\ is_success(response[ch].status)
         /\ response[ch].body # Some("")
         /\ ~WellFormedFor(response[ch].body[1], call[ch].T)) =>
            /\ result[ch].tag = "Err"
            /\ result[ch].kind = "Serialization"
            /\ result[ch].diag # ""
            /\ result[ch].body = response[ch].body

\* the path table: the path of a builder's scope and identifier
IdText(id) ==
    CASE id = 0 -> <<"0">>
      [] id = 1 -> <<"1">>
      [] id = 7 -> <<"7">>
      [] OTHER -> <<"3", "4">>

TablePath(b) ==
    CASE b.kind = "Colleges" -> <<"/colleges">>
      [] b.kind = "College" -> <<"/colleges/">> \o IdText(b.id)
      [] b.kind = "Campuses" -> <<"/colleges/">> \o IdText(b.id) \o <<"/campuses">>
      [] b.kind = "Campus" -> <<"/campuses/">> \o IdText(b.id)
      [] b.kind = "Groups" -> <<"/campuses/">> \o IdText(b.id) \o <<"/groups">>
      [] b.kind = "Group" -> <<"/groups/">> \o IdText(b.id)
      [] OTHER -> <<"/groups/">> \o IdText(b.id) \o <<"/schedules">>

\* the scope each operation yields: the kind of builder, and whether its
\* identifier is the argument ("arg"), the identifier of the builder it was
\* called on ("self"), the default college ("default") or none
ScopeOf(op) ==
    CASE op = "Client::colleges" -> [kind |-> "Colleges", id |-> "none"]
      [] op = "Client::college" -> [kind |-> "College", id |-> "default"]
      [] op = "Client::campuses" -> [kind |-> "Campuses", id |-> "default"]
      [] op = "Client::campus" -> [kind |-> "Campus", id |-> "arg"]
      [] op = "Client::groups" -> [kind |-> "Groups", id |-> "arg"]
      [] op \in {"Client::schedule", "Client::today", "Client::tomorrow"} ->
            [kind |-> "Schedule", id |-> "arg"]
      [] op = "CollegesQuery::name" -> [kind |-> "Colleges", id |-> "none"]
      [] op = "CollegesQuery::college" -> [kind |-> "College", id |-> "arg"]
      [] op = "CollegeQuery::campuses" -> [kind |-> "Campuses", id |-> "self"]
      [] op = "CampusesQuery::name" -> [kind |-> "Campuses", id |-> "self"]
      [] op \in {"CollegeQuery::campus", "CampusesQuery::campus"} ->
            [kind |-> "Campus", id |-> "arg"]
      [] op = "CampusQuery::groups" -> [kind |-> "Groups", id |-> "self"]
      [] op \in {"CampusQuery::group", "GroupsQuery::group"} ->
            [kind |-> "Group", id |-> "arg"]
      [] OTHER -> [kind |-> "Schedule", id |-> "self"]

TodayOps == {"Client::today", "GroupQuery::today", "ScheduleQuery::today"}

\* the calendar date of a timestamp as YYYY-MM-DD
DateText(dt) ==
    ZeroPad(dt.year, 4) \o <<"-">> \o ZeroPad(dt.month, 2) \o <<"-">>
        \o ZeroPad(dt.day, 2)

StartsWith(u, p) == Len(u) >= Len(p) /\ SubSeq(u, 1, Len(p)) = p

Rest(u, p) == SubSeq(u, Len(p) + 1, Len(u))

\* chain ch calls an operation that leaves it holding a builder
BuildStep(ch) ==
    /\ pc'[ch] = "building"
    /\ lastOp'[ch] # lastOp[ch] \/ builder'[ch] # builder[ch]

\* chain ch calls its terminal operation
SendStep(ch) == pc[ch] = "building" /\ pc'[ch] = "sent"

\* what follows base URL and table path in the URL a send step requests
QueryOf(ch) == Rest(request'[ch].url, client.base_url \o TablePath(builder[ch]))

\* C7: every operation of a chain yields the builder of the scope and
\* identifier it names, today() selects the clock's calendar date, and the
\* terminal operation requests the path the table gives for the scope and
\* identifier of the builder it is called on, the schedule terminal with the
\* selected date as the date parameter.
C7_PathTable ==
    [][\A ch \in Chains :
        /\ BuildStep(ch) =>
              LET sc == ScopeOf(lastOp'[ch].op)
              IN  /\ builder'[ch].kind = sc.kind
                  /\ sc.id = "arg" => IdText(builder'[ch].id) = lastOp'[ch].arg
                  /\ sc.id = "self" => builder'[ch].id = builder[ch].id
                  /\ sc.id = "default" =>
                        builder'[ch].id = client.default_college_id[1]
                  /\ lastOp'[ch].op \in TodayOps =>
                        builder'[ch].sel = [k |-> "date", v |-> DateText(now)]
        /\ SendStep(ch) =>
              /\ StartsWith(request'[ch].url,
                            client.base_url \o TablePath(builder[ch]))
              /\ request'[ch].method = "GET"
              /\ QueryOf(ch) # <<>> =>
                    Head(QueryOf(ch)) \in {"?name=", "?date=", "?week="}
              /\ (builder[ch].kind = "Schedule" /\ builder[ch].sel.k = "date") =>
                    QueryOf(ch) = <<"?date=">> \o builder[ch].sel.v
      ]_vars

C7_Witness ==
    \E ch \in Chains :
        /\ pc[ch] = "sent"
        /\ lastOp[ch].op = "ScheduleQuery::send"
        /\ now = ClockStart
        /\ request[ch].url =
              client.base_url
                  \o <<"/groups/", "3", "4", "/schedules", "?date=",
                       "2", "0", "2", "5", "-", "1", "2", "-", "3", "1">>

CollectionKinds == {"Colleges", "Campuses"}

NameOps == {"CollegesQuery::name", "CampusesQuery::name"}

\* a name as it is written in the query string: "", "a", "a b"
NameOnWire(kind, name) ==
    CASE name = <<>> -> <<>>
      [] name = <<"a">> -> <<"a">>
      [] OTHER -> IF kind = "Colleges" THEN <<"a", "+", "b">>
                  ELSE <<"a", "%20", "b">>

\* C8 as claimed: the request of a collection-level builder has a name
\* parameter only if name(..) was called, and never an empty one.
C8_NoEmptyName ==
    [][\A ch \in Chains :
        (SendStep(ch) /\ builder[ch].kind \in CollectionKinds) =>
            /\ QueryOf(ch) # <<>> => builder[ch].name # None
            /\ QueryOf(ch) # <<"?name=">>
      ]_vars

\* C8 as amended: a collection-level builder holds a name exactly from its
\* first name(..) call on, the argument of the last call; its request has the
\* name parameter exactly if it holds one, with that argument as value, so an
\* empty name parameter is sent exactly when the last argument was "".
C8_NameIffSet ==
    [][\A ch \in Chains :
        /\ (BuildStep(ch) /\ builder'[ch].kind \in CollectionKinds) =>
              builder'[ch].name =
                  IF lastOp'[ch].op \in NameOps THEN Some(lastOp'[ch].arg) ELSE None
        /\ (SendStep(ch) /\ builder[ch].kind \in CollectionKinds) =>
              QueryOf(ch) =
                  IF builder[ch].name = None THEN <<>>
                  ELSE <<"?name=">> \o NameOnWire(builder[ch].kind, builder[ch].name[1])
      ]_vars

C8_Witness ==
    \E ch \in Chains :
        /\ pc[ch] = "sent"
        /\ lastOp[ch].op = "CampusesQuery::send"
        /\ request[ch].url =
              client.base_url \o <<"/colleges/", "7", "/campuses", "?name=">>

(***************************************************************************)
(* Properties of chains sharing one client                                 *)
(***************************************************************************)
\* the query string of a builder holding a name
NameQuery(b) ==
    IF b.name = None THEN <<>>
    ELSE <<"?name=">> \o NameOnWire(b.kind, b.name[1])

\* C12: no step of any chain, whatever the other chains are doing and
\* whatever the step's outcome, changes the client's base URL or default
\* college identifier, and the URL of every request a chain issues is the
\* client's base URL followed by the path (and name parameter) of the chain's
\* builder.
C12_ClientUnchanged ==
    [][/\ client'.base_url = client.base_url
       /\ client'.default_college_id = client.default_college_id
       /\ \A ch \in SharedChains :
             SendStep(ch) =>
                 request'[ch].url =
                     client.base_url \o TablePath(builder[ch])
                         \o NameQuery(builder[ch])
      ]_vars

\* two chains on a client with default college 7: the first has its answer,
\* the second has narrowed to campus 34 and its request is in flight
C12_Witness ==
    /\ client.default_college_id = Some(7)
    /\ pc[1] = "done" /\ result[1].tag = "Ok"
    /\ lastOp[1].op = "CampusesQuery::send"
    /\ pc[2] = "sent" /\ lastOp[2].op = "CampusQuery::get"
    /\ request[2].url = client.base_url \o <<"/campuses/", "3", "4">>
    /\ transport_calls = 2

(***************************************************************************)
(* Properties of one chain run on two clients                              *)
(***************************************************************************)
\* the path the calls made so far name: client.campus(id) followed by get,
\* by groups().send(), or by group(g).get() with or without groups() first
CalledPath(ops) ==
    LET id == ops[1].arg
        term == ops[Len(ops)].op
    IN  CASE term = "CampusQuery::get" -> <<"/campuses/">> \o id
          [] term = "GroupsQuery::send" -> <<"/campuses/">> \o id \o <<"/groups">>
          [] OTHER -> <<"/groups/">> \o ops[Len(ops) - 1].arg

\* C13: of two clients with the same base URL that both have a default
\* college, whatever the two identifiers, the chain from client.campus(id)
\* issues the same request: /campuses/{id} for get, /campuses/{id}/groups for
\* groups().send(), /groups/{g} for group(g).get(); a client without a default
\* college issues none.
C13_CampusIgnoresDefault ==
    /\ \A i, j \in Runs :
          (/\ pClient[i].base_url = pClient[j].base_url
           /\ pClient[i].default_college_id # None
           /\ pClient[j].default_college_id # None) =>
              /\ pPc[i] = pPc[j]
              /\ pBuilder[i] = pBuilder[j]
              /\ pRequest[i] = pRequest[j]
    /\ \A i \in Runs :
          /\ pPc[i] = "sent" =>
                /\ pRequest[i].method = "GET"
                /\ pRequest[i].url = pClient[i].base_url \o CalledPath(pOps)
          /\ pClient[i].default_college_id = None => pRequest[i] = NoRequest

\* defaults 1 and 7: client.campus(34).groups().send() was called on both
C13_Witness ==
    /\ pClient[1].default_college_id = Some(1)
    /\ pClient[2].default_college_id = Some(7)
    /\ pPc[1] = "sent" /\ pPc[2] = "sent"
    /\ pOps[Len(pOps)].op = "GroupsQuery::send"
    /\ pRequest[1].url =
          pClient[1].base_url \o <<"/campuses/", "3", "4", "/groups">>
    /\ pRequest[2] = pRequest[1]

====
